---- MODULE Spec2Model ----
(***************************************************************************)
(* Model of optillm's ThinkDeeper decode controllers:                      *)
(*   - optillm/plugins/thinkdeeper_plugin.py  (torch-backed plugin)        *)
(*   - optillm/thinkdeeper.py                 (simulated variant)          *)
(*                                                                         *)
(* Text is modelled as a sequence of atomic pieces (one piece = one        *)
(* character of text = one vocabulary entry of the tokenizer).  A python   *)
(* dict is a function whose domain is its key set; None and {} are both    *)
(* the empty function (both are falsy where the code tests them).          *)
(***************************************************************************)
EXTENDS Integers, Sequences, FiniteSets, TLC

VARIABLES
    pc,                 \* position of the single thread of control
    DEFAULT_CONFIG,     \* thinkdeeper_plugin.DEFAULT_CONFIG (module global)
    SIM_DEFAULT_CONFIG, \* thinkdeeper.DEFAULT_CONFIG (module global)
    request_config,     \* the request_config the invocation was given
    config,             \* self.config of the live processor
    prefix_len,         \* plugin: len(template_prefix_text)
    next_token,         \* plugin: token sampled in the latest iteration
    n_thinking_tokens,  \* plugin: local counter
    seen_end_think,     \* local flag of reasoning_effort (both variants)
    response_chunks,    \* plugin: local list of text chunks
    thought_count,      \* simulated: self.thought_count
    current_text,       \* simulated: self.current_text
    n_thinking_steps,   \* simulated: local counter
    branch,             \* branch taken by the latest loop iteration
    iters,              \* loop iterations executed by the current call
    calls,              \* reasoning_effort calls made on the live processor
    failed,             \* "none" or the failure raised during the invocation
    result,             \* what the invocation handed to its caller
    sessions,           \* concurrent plugin invocations, each with its locals
    random_state        \* state of the generator behind the random module

vars == <<pc, DEFAULT_CONFIG, SIM_DEFAULT_CONFIG, request_config, config, prefix_len,
          next_token, n_thinking_tokens, seen_end_think, response_chunks,
          thought_count, current_text, n_thinking_steps, branch, iters,
          calls, failed, result, sessions, random_state>>

(***************************************************************************)
(* Bounds of the model.                                                    *)
(***************************************************************************)
\* longest response_chunks the exact plugin loop is followed to
MaxChunks == 3
\* longest current_text the simulated loop is followed to
MaxText == 4
\* longest template prefix text
MaxPrefixLen == 2
\* reasoning_effort calls followed on one processor instance
MaxCalls == 2
\* longest response_chunks a concurrent session is followed to
MaxSessionChunks == 2
\* number of states of the random module's generator
RandomPeriod == 3

(***************************************************************************)
(* Helpers on integers and sequences.                                      *)
(***************************************************************************)
Min(a, b) == IF a <= b THEN a ELSE b

Max(a, b) == IF a >= b THEN a ELSE b

\* "".join(chunks)
RECURSIVE JoinEmpty(_)
JoinEmpty(chunks) ==
    IF chunks = <<>> THEN <<>> ELSE Head(chunks) \o JoinEmpty(Tail(chunks))

\* s[k:] for k >= 0
DropPrefix(s, k) == SubSeq(s, k + 1, Len(s))

(***************************************************************************)
(* Tokenizer (external collaborator), as the plugin uses it.  encode puts  *)
(* a begin-of-sequence token in front (the code reads the start marker at  *)
(* tokens[1] and the end marker at tokens[2]); decode of one token is its  *)
(* piece of text.                                                          *)
(***************************************************************************)
BOS == "<bos>"

EOS == "<eos>"

Encode(text) == <<BOS>> \o text

Decode(token) == <<token>>

(***************************************************************************)
(* thinkdeeper_plugin.DEFAULT_CONFIG                                       *)
(***************************************************************************)
PluginDefaults ==
    [replacements |-> << <<"\n", "Wait,", "but">>, <<"\n", "Hmm">>, <<"\n", "So">> >>,
     min_thinking_tokens |-> 128,
     prefill |-> <<>>,
     start_think_token |-> <<"<think>">>,
     end_think_token |-> <<"</think>">>]


\* self.end_think_token = tokens[2] of encode(start marker + end marker)
EndThinkToken(cfg) ==
    Encode(cfg["start_think_token"] \o cfg["end_think_token"])[3]

\* tokens the model can sample
Vocabulary == {"a", "</think>", "</reason>", EOS}

(***************************************************************************)
(* Partial configs a request can carry.  An option is <<>> (key absent)    *)
(* or <<v>> (key present with value v).                                    *)
(***************************************************************************)
Entry(key, opt) == [k \in (IF opt = <<>> THEN {} ELSE {key}) |-> opt[1]]

EmptyDict == [k \in {} |-> 0]

\* overrides of the keys the loop reads, alone; and every combination of the
\* other keys (the last one is not a key of DEFAULT_CONFIG), alone or on top
\* of a short minimum
ThinkdeeperConfigs ==
    { Entry("replacements", r) @@ Entry("min_thinking_tokens", m) :
        r \in {<<>>, << <<>> >>, << << <<"Hmm">> >> >>},
        m \in {<<>>, <<0>>, <<2>>, <<4>>} }
    \cup
    { Entry("min_thinking_tokens", m) @@ Entry("prefill", p)
        @@ Entry("start_think_token", s) @@ Entry("end_think_token", e)
        @@ Entry("max_tokens", u) :
        m \in {<<>>, <<2>>},
        p \in {<<>>, << <<"Let">> >>},
        s \in {<<>>, << <<"<reason>">> >>},
        e \in {<<>>, << <<"</reason>">> >>},
        u \in {<<>>, <<7>>} }

PluginRequests ==
    {EmptyDict, [k \in {"stream"} |-> TRUE]}
        \cup {[k \in {"thinkdeeper_config"} |-> tc] : tc \in ThinkdeeperConfigs}

\* dict.get(key, default)
Get(d, key, default) == IF key \in DOMAIN d THEN d[key] ELSE default

\* python truthiness of a dict (or None)
Truthy(d) == DOMAIN d # {}

\* {**a, **b}
Merge(a, b) ==
    [k \in DOMAIN a \cup DOMAIN b |-> IF k \in DOMAIN b THEN b[k] ELSE a[k]]

\* variant: config.update(given), whatever the keys
UpdateValidKeys_CopiesAll(cfg, keys, given) == Merge(cfg, given)

\* for key in DEFAULT_CONFIG: if key in given: config[key] = given[key]
RECURSIVE UpdateValidKeys(_, _, _)
UpdateValidKeys(cfg, keys, given) ==
    IF keys = {} THEN cfg
    ELSE LET key == CHOOSE k \in keys : TRUE
         IN  UpdateValidKeys(
                 IF key \in DOMAIN given
                     THEN [cfg EXCEPT ![key] = given[key]] ELSE cfg,
                 keys \ {key}, given)

\* config resolution of run()
ResolvePluginConfig(defaults, request) ==
    IF Truthy(request)
        THEN UpdateValidKeys(defaults, DOMAIN defaults,
                             Get(request, "thinkdeeper_config", EmptyDict))
        ELSE defaults

(***************************************************************************)
(* thinkdeeper.DEFAULT_CONFIG and the text helpers of the simulated        *)
(* variant.  There a piece of text is a word or a piece of whitespace.     *)
(***************************************************************************)
SimDefaults ==
    [min_thinking_tokens |-> 1024,
     max_thinking_tokens |-> 4196,
     max_thoughts |-> 64,
     prefill |-> <<>>,
     start_think_token |-> <<"<think>">>,
     end_think_token |-> <<"</think>">>,
     thought_switch_tokens |-> << <<"Wait,">>, <<"Alternatively,">> >>]

Whitespace == {" ", "\n"}

IsWord(piece) == piece \notin Whitespace

\* len(text.split())
WordCount(text) == Len(SelectSeq(text, IsWord))

\* " ".join(chunks)
RECURSIVE JoinSpace(_)
JoinSpace(chunks) ==
    IF chunks = <<>> THEN <<>>
    ELSE IF Len(chunks) = 1 THEN Head(chunks)
    ELSE Head(chunks) \o <<" ">> \o JoinSpace(Tail(chunks))

\* text.strip()
RECURSIVE LStrip(_)
LStrip(text) ==
    IF text # <<>> /\ Head(text) \in Whitespace THEN LStrip(Tail(text)) ELSE text

RECURSIVE RStrip(_)
RStrip(text) ==
    IF text # <<>> /\ text[Len(text)] \in Whitespace
        THEN RStrip(SubSeq(text, 1, Len(text) - 1)) ELSE text

Strip(text) == RStrip(LStrip(text))

\* response_vocabulary and the objects of line 79, word by word
ResponseVocabulary ==
    << <<"Let's", "consider">>, <<"This", "means">>, <<"So,">>, <<"Therefore,">>,
       <<"If", "we", "think", "about", "it,">>, <<"The", "next", "step", "is">>,
       <<"That", "leads", "to">> >>

StepObjects == << <<"this.">>, <<"that.">>, <<"the", " ", "issue.">> >>

\* f"{random.choice(response_vocabulary)} {random.choice([...])}."
ReasoningStep(v, o) == ResponseVocabulary[v] \o <<" ">> \o StepObjects[o]

\* f"{start_think_token}\n{prefill}"
Seed(cfg) == cfg["start_think_token"] \o <<"\n">> \o cfg["prefill"]

SimRequests ==
    { Entry("min_thinking_tokens", m) @@ Entry("max_thinking_tokens", x)
        @@ Entry("max_thoughts", t) @@ Entry("thought_switch_tokens", w) :
        m \in {<<>>, <<0>>, <<2>>},
        x \in {<<>>, <<0>>, <<3>>},
        t \in {<<>>, <<0>>, <<1>>, <<2>>},
        w \in {<<>>, << <<>> >>, << << <<"But", " ", "wait,">> >> >>} }
    \cup
    { Entry("max_thoughts", t) @@ Entry("prefill", p)
        @@ Entry("start_think_token", s) @@ Entry("end_think_token", e)
        @@ Entry("max_tokens", u) :
        t \in {<<>>, <<2>>},
        p \in {<<>>, << <<"Let">> >>},
        s \in {<<>>, << <<"<reason>">> >>},
        e \in {<<>>, << <<"</reason>">> >>},
        u \in {<<>>, <<7>>} }

\* config resolution of thinkdeeper_decode()
ResolveSimConfig(defaults, request) ==
    IF Truthy(request)
        THEN UpdateValidKeys(defaults, DOMAIN defaults, request)
        ELSE defaults

(***************************************************************************)
(* Results handed to the caller.                                           *)
(***************************************************************************)
NoResult == [kind |-> "none", text |-> <<>>, units |-> 0]

Returned(text, units) == [kind |-> "returned", text |-> text, units |-> units]

Raised(error) == [kind |-> "raised", text |-> <<error>>, units |-> 0]

\* run(): except Exception as e: return f"Error in ...: {str(e)}", 0
ErrorFallback(error) ==
    Returned(<<"Error in enhanced thinking process: ", error>>, 0)

\* full_response[prefix_len:], and run()'s completion token count
FinalResponse(chunks, plen) == DropPrefix(JoinEmpty(chunks), plen)

PluginReturn(chunks, plen) ==
    LET response == FinalResponse(chunks, plen)
    IN  Returned(response, Len(Encode(response)))

(***************************************************************************)
(* Concurrent invocations of the plugin: each has its own processor and    *)
(* its own locals of reasoning_effort.  "run" is the invocation as it      *)
(* executes; "alone" is the same invocation, fed the same sampled tokens,  *)
(* with no other invocation drawing from the generator in between.         *)
(***************************************************************************)
Sessions == {1, 2}

IdleRun ==
    [pc |-> "idle", config |-> EmptyDict, n_thinking_tokens |-> 0,
     seen_end_think |-> FALSE, response_chunks |-> <<>>]

IdleSession == [run |-> IdleRun, alone |-> IdleRun, alone_random |-> 0]

(***************************************************************************)
(* Initial state: both modules imported, nothing running.                  *)
(***************************************************************************)
Init ==
    /\ pc = "idle"
    /\ DEFAULT_CONFIG = PluginDefaults
    /\ SIM_DEFAULT_CONFIG = SimDefaults
    /\ request_config = EmptyDict
    /\ config = EmptyDict
    /\ prefix_len = 0
    /\ next_token = "none"
    /\ n_thinking_tokens = 0
    /\ seen_end_think = FALSE
    /\ response_chunks = <<>>
    /\ thought_count = 0
    /\ current_text = <<>>
    /\ n_thinking_steps = 0
    /\ branch = "none"
    /\ iters = 0
    /\ calls = 0
    /\ failed = "none"
    /\ result = NoResult
    /\ sessions = [s \in Sessions |-> IdleSession]
    /\ random_state = 0

SimVars == <<thought_count, current_text, n_thinking_steps>>

Globals == <<DEFAULT_CONFIG, SIM_DEFAULT_CONFIG>>

Concurrent == <<sessions, random_state>>

(***************************************************************************)
(* thinkdeeper_plugin.run up to the first loop iteration: resolve the      *)
(* config, load tokenizer and model, build the processor, enter            *)
(* reasoning_effort.  A failed load is caught by run's except clause.      *)
(***************************************************************************)
RunRequest(request, loads, plen) ==
    /\ pc = "idle"
    /\ request_config' = request
    /\ UNCHANGED <<Globals, Concurrent, SimVars>>
    /\ next_token' = "none"
    /\ n_thinking_tokens' = 0
    /\ seen_end_think' = FALSE
    /\ response_chunks' = <<>>
    /\ branch' = "none"
    /\ iters' = 0
    /\ LET cfg == ResolvePluginConfig(DEFAULT_CONFIG, request)
       IN  IF loads
           THEN /\ config' = Merge(DEFAULT_CONFIG, cfg)
                /\ prefix_len' = plen
                /\ calls' = 1
                /\ failed' = "none"
                /\ result' = NoResult
                /\ pc' = "plugin_loop"
           ELSE /\ config' = cfg
                /\ prefix_len' = 0
                /\ calls' = 0
                /\ failed' = "backend"
                /\ result' = ErrorFallback("OSError")
                /\ pc' = "plugin_done"

Run ==
    /\ pc = "idle"
    /\ \E request \in PluginRequests, loads \in BOOLEAN,
          plen \in 0..MaxPrefixLen :
           RunRequest(request, loads, plen)

(***************************************************************************)
(* One iteration of the plugin's while-loop, lines 74-111, and on break    *)
(* the join, trim and return of lines 113-118 and 155-159.  The iteration  *)
(* is followed exactly, or (exact = FALSE) without end: the counter is     *)
(* only ever compared with min_thinking_tokens, so it is then kept up to   *)
(* that value, and of the buffer and the iteration count only the first    *)
(* MaxChunks are kept.                                                     *)
(***************************************************************************)
\* variant: "=" written for "+="
Plus_Overwrites(n, k) == k

\* n_thinking_tokens += k
Plus(n, k) == n + k

PlusUpToMin(n, k) == Min(n + k, Max(n, config["min_thinking_tokens"]))

Add(exact, n, k) == IF exact THEN Plus(n, k) ELSE PlusUpToMin(n, k)

\* response_chunks.append(chunk)
Put(exact, chunks, chunk) ==
    IF exact \/ Len(chunks) < MaxChunks THEN Append(chunks, chunk) ELSE chunks

Tick(exact, n) == IF exact THEN n + 1 ELSE Min(n + 1, MaxChunks)

\* variant: the minimum is enforced on end-of-sequence only
NeedsReplacement_IgnoresMinimumOnEnd(token, n, seen, cfg) ==
    /\ token = EOS
    /\ (n < cfg["min_thinking_tokens"] \/ ~seen)

\* variant: end-of-sequence is replaced whether or not the end was seen
NeedsReplacement_IgnoresSeen(token, n, seen, cfg) ==
    \/ /\ token \in {EndThinkToken(cfg), EOS}
       /\ n < cfg["min_thinking_tokens"]
    \/ token = EOS

NeedsReplacement(token, n, seen, cfg) ==
    \/ /\ token \in {EndThinkToken(cfg), EOS}
       /\ n < cfg["min_thinking_tokens"]
    \/ /\ token = EOS
       /\ ~seen

PluginIteration(token, r, exact) ==
    LET seen == IF token = EndThinkToken(config) THEN TRUE ELSE seen_end_think
    IN  /\ pc = "plugin_loop"
        /\ UNCHANGED <<Globals, Concurrent, SimVars, request_config, config, prefix_len, calls>>
        /\ next_token' = token
        /\ seen_end_think' = seen
        /\ iters' = Tick(exact, iters)
        /\ IF NeedsReplacement(token, n_thinking_tokens, seen, config)
           THEN IF config["replacements"] = <<>>
                THEN \* random.choice([]) raises IndexError, caught by run
                     /\ branch' = "raise"
                     /\ failed' = "config"
                     /\ result' = ErrorFallback("IndexError")
                     /\ pc' = "plugin_done"
                     /\ UNCHANGED <<n_thinking_tokens, response_chunks>>
                ELSE LET replacement == config["replacements"][r]
                     IN  /\ branch' = "replace"
                         /\ response_chunks' = Put(exact, response_chunks, replacement)
                         /\ n_thinking_tokens' =
                                Add(exact, n_thinking_tokens, Len(Encode(replacement)))
                         /\ UNCHANGED <<pc, failed, result>>
           ELSE IF token = EOS /\ seen
                THEN /\ branch' = "stop"
                     /\ result' = PluginReturn(response_chunks, prefix_len)
                     /\ pc' = "plugin_done"
                     /\ UNCHANGED <<n_thinking_tokens, response_chunks, failed>>
                ELSE /\ branch' = "append"
                     /\ response_chunks' = Put(exact, response_chunks, Decode(token))
                     /\ n_thinking_tokens' = Add(exact, n_thinking_tokens, 1)
                     /\ UNCHANGED <<pc, failed, result>>

PluginStep ==
    /\ pc = "plugin_loop"
    /\ Len(response_chunks) < MaxChunks
    /\ \E token \in Vocabulary,
          r \in 1..Max(1, Len(config["replacements"])) :
           PluginIteration(token, r, TRUE)

\* the model call of line 75 raises; run's except clause turns it into text
PluginBackendFail ==
    /\ pc = "plugin_loop"
    /\ Len(response_chunks) < MaxChunks
    /\ failed' = "backend"
    /\ result' = ErrorFallback("RuntimeError")
    /\ pc' = "plugin_done"
    /\ branch' = "raise"
    /\ UNCHANGED <<Globals, Concurrent, SimVars, request_config, config, prefix_len, calls,
                   next_token, seen_end_think, iters, n_thinking_tokens,
                   response_chunks>>

\* reasoning_effort called once more on the same processor: lines 69-72
PluginCallAgain ==
    /\ pc = "plugin_done"
    /\ failed = "none"
    /\ calls < MaxCalls
    /\ \E plen \in 0..MaxPrefixLen : prefix_len' = plen
    /\ calls' = calls + 1
    /\ next_token' = "none"
    /\ n_thinking_tokens' = 0
    /\ seen_end_think' = FALSE
    /\ response_chunks' = <<>>
    /\ branch' = "none"
    /\ iters' = 0
    /\ result' = NoResult
    /\ pc' = "plugin_loop"
    /\ UNCHANGED <<Globals, Concurrent, SimVars, request_config, config, failed>>

PluginVars == <<prefix_len, next_token, n_thinking_tokens, response_chunks>>

(***************************************************************************)
(* thinkdeeper.thinkdeeper_decode up to the first loop iteration: resolve  *)
(* the config, build the processor (max() of an empty phrase list raises   *)
(* ValueError, which thinkdeeper_decode logs and re-raises), enter         *)
(* reasoning_effort.                                                       *)
(***************************************************************************)
DecodeRequest(request) ==
    /\ pc = "idle"
    /\ request_config' = request
    /\ UNCHANGED <<Globals, Concurrent, PluginVars>>
    /\ n_thinking_steps' = 0
    /\ seen_end_think' = FALSE
    /\ thought_count' = 0
    /\ branch' = "none"
    /\ iters' = 0
    /\ LET cfg == Merge(SIM_DEFAULT_CONFIG,
                        ResolveSimConfig(SIM_DEFAULT_CONFIG, request))
       IN  /\ config' = cfg
           /\ IF cfg["thought_switch_tokens"] = <<>>
              THEN /\ current_text' = <<>>
                   /\ calls' = 0
                   /\ failed' = "config"
                   /\ result' = Raised("ValueError")
                   /\ pc' = "sim_done"
              ELSE /\ current_text' = <<Seed(cfg)>>
                   /\ calls' = 1
                   /\ failed' = "none"
                   /\ result' = NoResult
                   /\ pc' = "sim_loop"

thinkdeeper_decode ==
    /\ pc = "idle"
    /\ \E request \in SimRequests : DecodeRequest(request)

(***************************************************************************)
(* One iteration of the simulated while-loop, lines 60-87, and on break    *)
(* lines 89-94.  low3 and low1 are the outcomes of random.random() < 0.3   *)
(* and < 0.1; w, v, o are the outcomes of the random.choice calls.         *)
(***************************************************************************)
\* lines 89-92
SimResponse(text, seen, cfg) ==
    Strip(JoinSpace(IF seen THEN text ELSE Append(text, cfg["end_think_token"])))

\* variant: the increment is missing
NextThoughtCount_Forgotten(count) == count

\* self.thought_count += 1
NextThoughtCount(count) == count + 1

\* variant: the cap is compared with ">"
ForceEnd_OffByOne(n, count, cfg) ==
    \/ n >= cfg["max_thinking_tokens"]
    \/ count > cfg["max_thoughts"]

\* variant: only the step budget forces the end
ForceEnd_IgnoresThoughts(n, count, cfg) ==
    n >= cfg["max_thinking_tokens"]

\* force_end of lines 62-63
ForceEnd(n, count, cfg) ==
    \/ n >= cfg["max_thinking_tokens"]
    \/ count >= cfg["max_thoughts"]

SimIteration(low3, w, v, o, low1) ==
    LET force_end == ForceEnd(n_thinking_steps, thought_count, config)
        end_think == config["end_think_token"]
    IN  /\ pc = "sim_loop"
        /\ UNCHANGED <<Globals, Concurrent, PluginVars, request_config, config, calls, failed>>
        /\ iters' = iters + 1
        /\ IF force_end /\ ~seen_end_think
           THEN /\ current_text' = Append(current_text, end_think)
                /\ seen_end_think' = TRUE
                /\ branch' = "force_end"
                /\ UNCHANGED <<thought_count, n_thinking_steps>>
                /\ result' = Returned(SimResponse(current_text', TRUE, config), 0)
                /\ pc' = "sim_done"
           ELSE LET switching == ~seen_end_think /\ (low3 \/ n_thinking_steps = 0)
                    switch == config["thought_switch_tokens"][w]
                    step == ReasoningStep(v, o)
                    text1 == Append(current_text, IF switching THEN switch ELSE step)
                    count1 == IF switching THEN NextThoughtCount(thought_count)
                              ELSE thought_count
                    steps1 == IF switching THEN n_thinking_steps
                              ELSE n_thinking_steps + WordCount(step)
                    natural_end == /\ steps1 >= config["min_thinking_tokens"]
                                   /\ low1
                                   /\ ~seen_end_think
                IN  /\ thought_count' = count1
                    /\ n_thinking_steps' = steps1
                    /\ IF natural_end
                       THEN /\ current_text' = Append(text1, end_think)
                            /\ seen_end_think' = TRUE
                            /\ branch' = IF switching THEN "switch_end" ELSE "step_end"
                            /\ result' =
                                 Returned(SimResponse(current_text', TRUE, config), 0)
                            /\ pc' = "sim_done"
                       ELSE /\ current_text' = text1
                            /\ branch' = IF switching THEN "switch" ELSE "step"
                            /\ UNCHANGED <<seen_end_think, result, pc>>

SimStep ==
    /\ pc = "sim_loop"
    /\ Len(current_text) < MaxText
    /\ \E low3 \in BOOLEAN, low1 \in BOOLEAN,
          w \in 1..Len(config["thought_switch_tokens"]),
          v \in 1..Len(ResponseVocabulary), o \in 1..Len(StepObjects) :
           SimIteration(low3, w, v, o, low1)

\* reasoning_effort called once more on the same processor: lines 46-58
SimCallAgain ==
    /\ pc = "sim_done"
    /\ failed = "none"
    /\ calls < MaxCalls
    /\ calls' = calls + 1
    /\ current_text' = <<Seed(config)>>
    /\ n_thinking_steps' = 0
    /\ seen_end_think' = FALSE
    /\ branch' = "none"
    /\ iters' = 0
    /\ result' = NoResult
    /\ pc' = "sim_loop"
    /\ UNCHANGED <<Globals, Concurrent, PluginVars, request_config, config, failed, thought_count>>

\* the invocation is over; its processor and locals are dropped
Finish ==
    /\ pc \in {"plugin_done", "sim_done"}
    /\ pc' = "idle"
    /\ request_config' = EmptyDict
    /\ config' = EmptyDict
    /\ prefix_len' = 0
    /\ next_token' = "none"
    /\ n_thinking_tokens' = 0
    /\ seen_end_think' = FALSE
    /\ response_chunks' = <<>>
    /\ thought_count' = 0
    /\ current_text' = <<>>
    /\ n_thinking_steps' = 0
    /\ branch' = "none"
    /\ iters' = 0
    /\ calls' = 0
    /\ failed' = "none"
    /\ result' = NoResult
    /\ UNCHANGED <<Globals, Concurrent>>

Next ==
    \/ Run
    \/ PluginStep
    \/ PluginBackendFail
    \/ PluginCallAgain
    \/ thinkdeeper_decode
    \/ SimStep
    \/ SimCallAgain
    \/ Finish

Spec == Init /\ [][Next]_vars

(***************************************************************************)
(* The plugin loop followed without end, for requests with a short         *)
(* minimum.  The loop keeps iterating as long as the model keeps           *)
(* answering.                                                              *)
(***************************************************************************)
PluginStepUnbounded ==
    /\ pc = "plugin_loop"
    /\ \E token \in Vocabulary,
          r \in 1..Max(1, Len(config["replacements"])) :
           PluginIteration(token, r, FALSE)

ShortMinimumRequests ==
    {[k \in {"thinkdeeper_config"} |->
         Entry("replacements", r) @@ Entry("min_thinking_tokens", m)] :
        r \in {<<>>, << <<>> >>, << << <<"Hmm">> >> >>},
        m \in {<<0>>, <<2>>, <<4>>} }

RunShortMinimum ==
    /\ pc = "idle"
    /\ \E request \in ShortMinimumRequests, loads \in BOOLEAN,
          plen \in 0..MaxPrefixLen :
           RunRequest(request, loads, plen)

NextUnbounded ==
    \/ RunShortMinimum
    \/ PluginStepUnbounded
    \/ PluginBackendFail
    \/ Finish

LiveSpec ==
    Init /\ [][NextUnbounded]_vars /\ WF_vars(PluginStepUnbounded)

(***************************************************************************)
(* Two plugin invocations running concurrently, interleaved iteration by   *)
(* iteration.  Each resolves its config from DEFAULT_CONFIG and keeps its  *)
(* own locals; random.choice (line 96) draws from the one generator of the *)
(* random module, a deterministic function of its state, which every draw  *)
(* advances.  The single-invocation specifications above leave each draw   *)
(* free and do not follow the generator.                                   *)
(***************************************************************************)
\* random.choice(seq) with the generator in the given state
RandomChoice(seq, state) == seq[(state % Len(seq)) + 1]

\* the generator's state after one draw
RandomAdvance(state) == (state + 1) % RandomPeriod

SessionRequests ==
    {[k \in {"thinkdeeper_config"} |-> Entry("min_thinking_tokens", m)] :
        m \in {<<>>, <<2>>} }

\* does the iteration reach random.choice: lines 85-94
SessionDraws(st, token) ==
    LET seen == IF token = EndThinkToken(st.config) THEN TRUE
                ELSE st.seen_end_think
    IN  NeedsReplacement(token, st.n_thinking_tokens, seen, st.config)

\* one iteration of the while-loop on a session's locals: lines 84-111
SessionIteration(st, token, state) ==
    LET seen == IF token = EndThinkToken(st.config) THEN TRUE
                ELSE st.seen_end_think
    IN  IF NeedsReplacement(token, st.n_thinking_tokens, seen, st.config)
        THEN LET replacement == RandomChoice(st.config["replacements"], state)
             IN  [st EXCEPT !.seen_end_think = seen,
                            !.response_chunks = Append(@, replacement),
                            !.n_thinking_tokens = Plus(@, Len(Encode(replacement)))]
        ELSE IF token = EOS /\ seen
             THEN [st EXCEPT !.seen_end_think = seen, !.pc = "done"]
             ELSE [st EXCEPT !.seen_end_think = seen,
                             !.response_chunks = Append(@, Decode(token)),
                             !.n_thinking_tokens = Plus(@, 1)]

SingleVars ==
    <<pc, request_config, config, PluginVars, SimVars, seen_end_think, branch,
      iters, calls, failed, result>>

\* run() up to the first iteration, in session s
SessionStart(s) ==
    /\ sessions[s].run.pc = "idle"
    /\ \E request \in SessionRequests :
          LET cfg == Merge(DEFAULT_CONFIG,
                           ResolvePluginConfig(DEFAULT_CONFIG, request))
              run == [pc |-> "loop", config |-> cfg, n_thinking_tokens |-> 0,
                      seen_end_think |-> FALSE, response_chunks |-> <<>>]
          IN  sessions' = [sessions EXCEPT ![s] =
                  [run |-> run, alone |-> run, alone_random |-> random_state]]
    /\ UNCHANGED <<Globals, SingleVars, random_state>>

\* session s executes one loop iteration
SessionStep(s) ==
    /\ sessions[s].run.pc = "loop"
    /\ Len(sessions[s].run.response_chunks) < MaxSessionChunks
    /\ \E token \in Vocabulary :
          LET run == sessions[s].run
              alone == sessions[s].alone
              replaying == alone.pc = "loop"
          IN  /\ sessions' = [sessions EXCEPT ![s] =
                    [run |-> SessionIteration(run, token, random_state),
                     alone |-> IF replaying
                               THEN SessionIteration(alone, token,
                                                     sessions[s].alone_random)
                               ELSE alone,
                     alone_random |->
                         IF replaying /\ SessionDraws(alone, token)
                         THEN RandomAdvance(sessions[s].alone_random)
                         ELSE sessions[s].alone_random]]
              /\ random_state' = IF SessionDraws(run, token)
                                 THEN RandomAdvance(random_state)
                                 ELSE random_state
    /\ UNCHANGED <<Globals, SingleVars>>

\* session s has returned; its processor and locals are dropped
SessionFinish(s) ==
    /\ sessions[s].run.pc = "done"
    /\ sessions' = [sessions EXCEPT ![s] = IdleSession]
    /\ UNCHANGED <<Globals, SingleVars, random_state>>

StartSession == \E s \in Sessions : SessionStart(s)

StepSession == \E s \in Sessions : SessionStep(s)

FinishSession == \E s \in Sessions : SessionFinish(s)

ConcNext ==
    \/ StartSession
    \/ StepSession
    \/ FinishSession

ConcSpec == Init /\ [][ConcNext]_vars

(***************************************************************************)
(* Properties.                                                             *)
(***************************************************************************)
InPlugin == pc \in {"plugin_loop", "plugin_done"}

InSim == pc \in {"sim_loop", "sim_done"}

EndMarkerChunk == Decode(EndThinkToken(config))

HasEndMarker(chunks) == \E i \in 1..Len(chunks) : chunks[i] = EndMarkerChunk

HasReplacement(chunks) ==
    \E i \in 1..Len(chunks), r \in 1..Len(config["replacements"]) :
        chunks[i] = config["replacements"][r]

\* C1: whenever the plugin's loop has been left through its break, the end
\* marker is one of the chunks of response_chunks.
C1_NoBareTermination ==
    (pc = "plugin_done" /\ branch = "stop") => HasEndMarker(response_chunks)

\* C2: a step appends the end marker proposed by the token source only when
\* the counter is at least the minimum: in the plugin the appended token is
\* the end marker only if n_thinking_tokens >= min_thinking_tokens held when
\* it was sampled, in the simulated variant the natural-end branch is taken
\* only with n_thinking_steps >= min_thinking_tokens.
C2_MinimumEnforcement ==
    [][ /\ ( /\ pc = "plugin_loop"
             /\ next_token' = EndThinkToken(config)
             /\ response_chunks' = Append(response_chunks, EndMarkerChunk)
             => n_thinking_tokens >= config["min_thinking_tokens"] )
        /\ ( /\ pc = "sim_loop"
             /\ branch' \in {"switch_end", "step_end"}
             => n_thinking_steps' >= config["min_thinking_tokens"] )
      ]_vars

\* a premature end marker was replaced, and a later one honored
C2_Witness ==
    /\ pc = "plugin_loop"
    /\ branch = "append"
    /\ next_token = EndThinkToken(config)
    /\ config["min_thinking_tokens"] > 0
    /\ HasReplacement(response_chunks)
    /\ response_chunks[Len(response_chunks)] = EndMarkerChunk

\* C3: the plugin's loop, once entered, is eventually left.
C3_PluginTerminates == (pc = "plugin_loop") ~> (pc = "plugin_done")

SimIterationBound(cfg) ==
    Max(0, cfg["max_thoughts"]) + Max(0, cfg["max_thinking_tokens"]) + 1

\* C4: the simulated loop makes at most max_thoughts + max_thinking_tokens + 1
\* iterations (negative limits counting as 0), and every iteration that does
\* not leave the loop strictly increases thought_count or n_thinking_steps.
C4_SimTerminates ==
    /\ [](InSim /\ failed = "none" => iters <= SimIterationBound(config))
    /\ [][ pc = "sim_loop" /\ pc' = "sim_loop"
           => \/ thought_count' > thought_count
              \/ n_thinking_steps' > n_thinking_steps ]_vars

\* a run that used every thought switch it was allowed and was then closed
C4_Witness ==
    /\ pc = "sim_done"
    /\ branch = "force_end"
    /\ config["max_thoughts"] = 2
    /\ thought_count = 2
    /\ iters = 3

ValidPluginConfig(cfg) == cfg["replacements"] # <<>>

ValidSimConfig(cfg) ==
    /\ cfg["min_thinking_tokens"] <= cfg["max_thinking_tokens"]
    /\ cfg["thought_switch_tokens"] # <<>>

\* C5: the loop never runs under an invalid configuration, and an error the
\* configuration causes is raised before the first iteration.
C5_ConfigValidatedBeforeLoop ==
    /\ pc = "plugin_loop" => ValidPluginConfig(config)
    /\ pc = "sim_loop" => ValidSimConfig(config)
    /\ failed = "config" => iters = 0

\* C6: an invocation whose backend failed does not hand its caller a
\* returned (text, units) result.
C6_FailurePropagated == failed = "backend" => result.kind # "returned"

\* C7: every call of reasoning_effort starts with both counters 0, the flag
\* false and the buffer holding the seed only (nothing, in the plugin).
C7_FreshDecodeState ==
    /\ (pc = "plugin_loop" /\ iters = 0) =>
           /\ n_thinking_tokens = 0
           /\ ~seen_end_think
           /\ response_chunks = <<>>
    /\ (pc = "sim_loop" /\ iters = 0) =>
           /\ n_thinking_steps = 0
           /\ thought_count = 0
           /\ ~seen_end_think
           /\ current_text = <<Seed(config)>>

\* C8: the text the plugin returns is the concatenation of all of
\* response_chunks, in order.
C8_ReturnsWholeContinuation ==
    (pc = "plugin_done" /\ branch = "stop") =>
        result.text = JoinEmpty(response_chunks)

Resolved(defaults, given) ==
    [k \in DOMAIN defaults |-> IF k \in DOMAIN given THEN given[k] ELSE defaults[k]]

\* C9: the resolved config has exactly the keys of DEFAULT_CONFIG, each with
\* the request's value if the request has the key and the default otherwise;
\* it is a function of the request alone, and resolution leaves both
\* DEFAULT_CONFIGs as they were.
C9_ConfigResolution ==
    /\ DEFAULT_CONFIG = PluginDefaults
    /\ SIM_DEFAULT_CONFIG = SimDefaults
    /\ InPlugin => config = Resolved(PluginDefaults,
                       Get(request_config, "thinkdeeper_config", EmptyDict))
    /\ InSim => config = Resolved(SimDefaults, request_config)

\* a request with an overridden key, a defaulted key and an unrecognized key
C9_Witness ==
    /\ pc = "plugin_loop"
    /\ "thinkdeeper_config" \in DOMAIN request_config
    /\ LET given == request_config["thinkdeeper_config"]
       IN  /\ "max_tokens" \in DOMAIN given
           /\ "min_thinking_tokens" \in DOMAIN given
           /\ "prefill" \notin DOMAIN given
           /\ config["min_thinking_tokens"] = 2
           /\ config["prefill"] = <<>>

\* C10: no step taken from inside either loop decreases a counter or
\* clears the seen-end flag.
C10_MonotonicCounters ==
    [][ /\ pc = "plugin_loop" =>
               /\ n_thinking_tokens' >= n_thinking_tokens
               /\ seen_end_think => seen_end_think'
        /\ pc = "sim_loop" =>
               /\ n_thinking_steps' >= n_thinking_steps
               /\ thought_count' >= thought_count
               /\ seen_end_think => seen_end_think'
      ]_vars

\* the plugin counter has grown over several steps with the flag set
C10_Witness ==
    /\ pc = "plugin_loop"
    /\ seen_end_think
    /\ iters >= 3
    /\ n_thinking_tokens >= 5
    /\ branch = "append"

\* C12: in the plugin seen_end_think is true only if an end marker has been
\* appended to response_chunks; a premature end marker, replaced by a
\* phrase, leaves the flag unset.
C12_SeenOnlyIfAppended ==
    (InPlugin /\ calls > 0 /\ seen_end_think) => HasEndMarker(response_chunks)

\* C13: a plugin iteration that samples end-of-sequence while seen_end_think
\* is true leaves the loop in that step, with buffer and counter unchanged.
C13_StopOnEosAfterEnd ==
    [][ ( /\ pc = "plugin_loop"
          /\ seen_end_think
          /\ iters' = iters + 1
          /\ next_token' = EOS )
        => /\ pc' = "plugin_done"
           /\ branch' = "stop"
           /\ response_chunks' = response_chunks
           /\ n_thinking_tokens' = n_thinking_tokens ]_vars

\* C14: a plugin iteration that samples end-of-sequence while seen_end_think
\* is false stays in the loop, appends one of the replacement phrases and
\* leaves seen_end_think false.
C14_ReplaceOnBareEos ==
    [][ ( /\ pc = "plugin_loop"
          /\ ~seen_end_think
          /\ iters' = iters + 1
          /\ next_token' = EOS )
        => /\ pc' = "plugin_loop"
           /\ ~seen_end_think'
           /\ Len(response_chunks') = Len(response_chunks) + 1
           /\ HasReplacement(<<response_chunks'[Len(response_chunks')]>>) ]_vars

\* C15: every step that appends a replacement phrase (plugin) or a
\* thought-switch phrase (simulated variant) increases the reasoning-unit
\* counter by the unit length of the phrase it appended: its token count for
\* n_thinking_tokens, its word count for n_thinking_steps.
C15_InjectionsCounted ==
    [][ /\ ( /\ pc = "plugin_loop"
             /\ iters' = iters + 1
             /\ branch' = "replace"
             => n_thinking_tokens' = n_thinking_tokens
                  + Len(Encode(response_chunks'[Len(response_chunks) + 1])) )
        /\ ( /\ pc = "sim_loop"
             /\ iters' = iters + 1
             /\ branch' \in {"switch", "switch_end"}
             => n_thinking_steps' = n_thinking_steps
                  + WordCount(current_text'[Len(current_text) + 1]) )
      ]_vars

\* C16: in the simulated loop under the default config, as long as thinking
\* is open, an iteration that appends a reasoning step and raises
\* n_thinking_steps is possible.
C16_ReasoningStepPossible ==
    ( /\ pc = "sim_loop"
      /\ config = SIM_DEFAULT_CONFIG
      /\ ~seen_end_think
      /\ Len(current_text) < MaxText )
    => ENABLED ( /\ SimStep
                 /\ branch' \in {"step", "step_end"}
                 /\ n_thinking_steps' > n_thinking_steps )

\* C17: in the simulated variant, with max_thoughts >= 0, thought_count never
\* exceeds max_thoughts, and an iteration begun with thought_count at
\* max_thoughts injects no thought-switch phrase.
C17_ThoughtSwitchCap ==
    /\ []( (InSim /\ config["max_thoughts"] >= 0)
             => thought_count <= config["max_thoughts"] )
    /\ [][ ( /\ pc = "sim_loop"
             /\ config["max_thoughts"] >= 0
             /\ thought_count >= config["max_thoughts"]
             /\ iters' = iters + 1 )
           => /\ thought_count' = thought_count
              /\ branch' \notin {"switch", "switch_end"} ]_vars

\* the cap was reached by switching, and the iteration after it forced the end
C17_Witness ==
    /\ pc = "sim_done"
    /\ branch = "force_end"
    /\ config["max_thoughts"] = 2
    /\ thought_count = 2
    /\ Len(current_text) = 4

SimEndMarkerCount(text) ==
    Cardinality({i \in 1..Len(text) : text[i] = config["end_think_token"]})

\* C18: in the simulated variant an iteration begun with
\* n_thinking_steps >= max_thinking_tokens or thought_count >= max_thoughts
\* and the end marker not yet seen appends the end marker, sets
\* seen_end_think and ends the run with nothing after the marker; in every
\* completed run the end marker occurs in current_text exactly once and is
\* its last chunk.
C18_ForceClose ==
    /\ [][ ( /\ pc = "sim_loop"
             /\ ~seen_end_think
             /\ \/ n_thinking_steps >= config["max_thinking_tokens"]
                \/ thought_count >= config["max_thoughts"]
             /\ iters' = iters + 1 )
           => /\ current_text' = Append(current_text, config["end_think_token"])
              /\ seen_end_think'
              /\ pc' = "sim_done"
              /\ result' = Returned(Strip(JoinSpace(current_text')), 0) ]_vars
    /\ []( (pc = "sim_done" /\ failed = "none")
             => /\ SimEndMarkerCount(current_text) = 1
                /\ current_text[Len(current_text)] = config["end_think_token"] )

\* one thought switch used up max_thoughts = 1; the next iteration closed
C18_Witness ==
    /\ pc = "sim_done"
    /\ branch = "force_end"
    /\ config["max_thoughts"] = 1
    /\ n_thinking_steps < config["max_thinking_tokens"]
    /\ seen_end_think
    /\ current_text = <<Seed(config), config["thought_switch_tokens"][1],
                        config["end_think_token"]>>

\* C19: the plugin's loop is left only by a step whose token is
\* end-of-sequence, taken with seen_end_think true and
\* n_thinking_tokens >= min_thinking_tokens; an end-of-sequence sampled below
\* the minimum does not end generation.
C19_OnlyExit ==
    [][ ( /\ pc = "plugin_loop"
          /\ iters' = iters + 1
          /\ pc' # "plugin_loop" )
        => /\ next_token' = EOS
           /\ seen_end_think'
           /\ n_thinking_tokens' >= config["min_thinking_tokens"] ]_vars

\* C20: once an end marker is in response_chunks, every later iteration of
\* that run either appends the sampled token's text as ordinary content or
\* samples end-of-sequence and stops the loop; no replacement is injected.
C20_NoReplacementAfterClose ==
    [][ ( /\ pc = "plugin_loop"
          /\ HasEndMarker(response_chunks)
          /\ iters' = iters + 1 )
        => \/ /\ branch' = "append"
              /\ next_token' # EOS
              /\ response_chunks' = Append(response_chunks, Decode(next_token'))
              /\ pc' = "plugin_loop"
           \/ /\ branch' = "stop"
              /\ next_token' = EOS
              /\ response_chunks' = response_chunks
              /\ pc' = "plugin_done" ]_vars

\* an honored end marker, then ordinary content, then end-of-sequence
C20_Witness ==
    /\ pc = "plugin_done"
    /\ branch = "stop"
    /\ Len(response_chunks) >= 2
    /\ response_chunks[Len(response_chunks) - 1] = EndMarkerChunk
    /\ response_chunks[Len(response_chunks)] = Decode("a")

\* C11: under any interleaving of two concurrent plugin invocations, each
\* session's counter, seen-end flag, buffer, resolved config and position
\* are those of the same invocation run alone on the same sampled tokens.
C11_SessionsIsolated ==
    \A s \in Sessions : sessions[s].run = sessions[s].alone

====
